---- MODULE Spec2Model ----
(***************************************************************************)
(* Model of the multi-indexer torrent search of bobarr:                    *)
(* JackettService.search / searchIndexer / formatSearchResult / parseTag / *)
(* parseQuality (packages/api/src/modules/jackett/jackett.service.ts).     *)
(*                                                                         *)
(* Strings that the code inspects character by character (titles, rule     *)
(* names, keywords) are sequences of one-character strings.                *)
(***************************************************************************)
EXTENDS Integers, Sequences, FiniteSets, TLC

VARIABLES
    opts,          \* options of the search() call: withoutFilter, isSeason, maxSize
    queries,       \* the queries argument of search()
    phase,         \* position of search(): "init", "waiting", "joined", "done"
    task,          \* per indexer: the state of its searchIndexer() promise
    timer,         \* the deadline timer of the fan-out: "idle", "armed", "fired"
    joinValue,     \* what the awaited fan-out settled with
    settledAtJoin, \* the indexers whose task had resolved when the fan-out settled
    outcome,       \* what search() settled with
    tagRules,      \* the tag rules of paramsService.getTags()
    script,        \* a run of the download-finished script and the staging directory
    call,          \* a call of one of the pure functions: its name and argument
    ret            \* what that call returned

vars == <<opts, queries, phase, task, timer, joinValue, settledAtJoin, outcome, tagRules,
          script, call, ret>>

(***************************************************************************)
(* Bounds and input domains                                                *)
(***************************************************************************)
\* number of configured indexers returned by getConfiguredIndexers()
NumIndexers == 2

Indexers == 1..NumIndexers

\* largest number of tokens of a normalized title given to parseTag and parseQuality
MaxTokens == 3

\* largest season number of a season search
MaxSeason == 10

\* the JavaScript value undefined
Undefined == [undefined |-> TRUE]

Digits == {"0", "1", "2", "3", "4", "5", "6", "7", "8", "9"}

UpperCase == <<"A", "B", "C", "D", "E", "F", "G", "H", "I", "J", "K", "L", "M", "N", "O", "P", "Q", "R", "S", "T", "U", "V", "W", "X", "Y", "Z">>

LowerCase == <<"a", "b", "c", "d", "e", "f", "g", "h", "i", "j", "k", "l", "m", "n", "o", "p", "q", "r", "s", "t", "u", "v", "w", "x", "y", "z">>

(***************************************************************************)
(* Sequence helpers (lodash / Array.prototype)                             *)
(***************************************************************************)
\* Array.prototype.flat() on an array of arrays
RECURSIVE Flat(_)
Flat(ss) == IF ss = <<>> THEN <<>> ELSE Head(ss) \o Flat(Tail(ss))

\* lodash uniq: the first occurrence of every value, in order
RECURSIVE Uniq(_)
Uniq(s) ==
    IF s = <<>> THEN <<>>
    ELSE LET init == Uniq(SubSeq(s, 1, Len(s) - 1))
             last == s[Len(s)]
         IN  IF \E i \in 1..Len(init) : init[i] = last THEN init ELSE Append(init, last)

\* lodash uniqBy(results, 'Guid'): the first occurrence of every Guid, in order
RECURSIVE UniqByGuid(_)
UniqByGuid(s) ==
    IF s = <<>> THEN <<>>
    ELSE LET init == UniqByGuid(SubSeq(s, 1, Len(s) - 1))
             last == s[Len(s)]
         IN  IF \E i \in 1..Len(init) : init[i].Guid = last.Guid
             THEN init ELSE Append(init, last)

\* Array.prototype.map
MapSeq(s, F(_)) == [i \in 1..Len(s) |-> F(s[i])]

(***************************************************************************)
(* src/utils/sanitize and the regular expressions of the acceptance filter *)
(***************************************************************************)
LowerOf == [c \in {UpperCase[i] : i \in 1..Len(UpperCase)} |->
              LowerCase[CHOOSE i \in 1..Len(UpperCase) : UpperCase[i] = c]]

ToLowerChar(c) == IF c \in DOMAIN LowerOf THEN LowerOf[c] ELSE c

\* String.prototype.toLowerCase
ToLowerCase(s) == [i \in 1..Len(s) |-> ToLowerChar(s[i])]

Alnum == Digits \cup {LowerCase[i] : i \in 1..Len(LowerCase)} \cup DOMAIN LowerOf

IsAlnum(c) == c \in Alnum

\* sanitize(title): lower-cased, every character that is neither a letter nor
\* a digit replaced by a space
sanitize(title) ==
    [i \in 1..Len(title) |-> IF IsAlnum(title[i]) THEN ToLowerChar(title[i]) ELSE " "]

\* String.prototype.split(' ') followed by filter((str) => str && str.trim()):
\* the maximal runs of non-space characters, in order
RECURSIVE SplitParts(_, _, _)
SplitParts(s, i, cur) ==
    IF i > Len(s) THEN (IF cur = <<>> THEN <<>> ELSE <<cur>>)
    ELSE IF s[i] = " "
         THEN (IF cur = <<>> THEN <<>> ELSE <<cur>>) \o SplitParts(s, i + 1, <<>>)
         ELSE SplitParts(s, i + 1, Append(cur, s[i]))

\* s has the literal w at position p
LiteralAt(s, p, w) ==
    /\ p >= 1
    /\ p + Len(w) - 1 <= Len(s)
    /\ \A k \in 1..Len(w) : s[p + k - 1] = w[k]

\* s[from..to] is a non-empty run of digits (\d+)
DigitRun(s, from, to) ==
    /\ from >= 1 /\ from <= to /\ to <= Len(s)
    /\ \A k \in from..to : s[k] \in Digits

\* s[from..to] is a possibly empty run of white space (\s*)
SpaceRun(s, from, to) == \A k \in from..to : k >= 1 /\ k <= Len(s) /\ s[k] = " "

\* titlePart.match(/e\d+|episode|episode\d+|ep|ep\d+/): the pattern is not
\* anchored, it matches anywhere inside the part
MatchEpisodeIndicator(part) ==
    \E p \in 1..Len(part) :
        \/ LiteralAt(part, p, <<"e">>) /\ DigitRun(part, p + 1, p + 1)
        \/ LiteralAt(part, p, <<"e", "p", "i", "s", "o", "d", "e">>)
        \/ LiteralAt(part, p, <<"e", "p", "i", "s", "o", "d", "e">>) /\ DigitRun(part, p + 7, p + 7)
        \/ LiteralAt(part, p, <<"e", "p">>)
        \/ LiteralAt(part, p, <<"e", "p">>) /\ DigitRun(part, p + 2, p + 2)

\* the positions at which a match of ep?\d+ that starts at p can end
EpNumberEnds(s, p) ==
    IF ~LiteralAt(s, p, <<"e">>) THEN {}
    ELSE LET from == IF LiteralAt(s, p + 1, <<"p">>) THEN {p + 1, p + 2} ELSE {p + 1}
         IN  {q \in p..Len(s) : \E d \in from : DigitRun(s, d, q)}

\* normalizedTitle.match(/ep?\d+\s*ep?\d+/)
MatchDoubleEpisode(s) ==
    \E p \in {x \in 1..Len(s) : s[x] = "e"} :
        \E q \in EpNumberEnds(s, p) :
            \E r \in {x \in (q + 1)..Len(s) : s[x] = "e"} :
                SpaceRun(s, q + 1, r - 1) /\ EpNumberEnds(s, r) # {}

(***************************************************************************)
(* Configuration rows and backend data the search runs against             *)
(***************************************************************************)
\* message of the error that marks "no results"
noResultsError == "NO_RESULTS"

\* messages of the errors a collaborator (params service, backend) may throw
ErrorMessages == {noResultsError, "ECONNREFUSED"}

\* paramsService.getTags() with two tag rules configured
PreferredTags ==
    << [name |-> <<"R", "A", "R", "B", "G">>, score |-> 5], [name |-> <<"Y", "T", "S">>, score |-> 2] >>

\* paramsService.getQualities(type)
QualityParams ==
    << [name |-> <<"7", "2", "0", "p">>, match |-> << <<"7", "2", "0", "p">> >>, score |-> 2],
       [name |-> <<"1", "0", "8", "0", "p">>, match |-> << <<"1", "0", "8", "0", "P">>, <<"1", "0", "8", "0">> >>, score |-> 3] >>

TitlePack == <<"S", "h", "o", "w", ".", "S", "0", "2", ".", "E", "0", "1", "E", "1", "0", ".", "1", "0", "8", "0", "p">>
TitleEpisode == <<"S", "h", "o", "w", ".", "S", "0", "2", ".", "E", "0", "5", ".", "1", "0", "8", "0", "p">>
TitleSeason == <<"S", "h", "o", "w", ".", "S", "0", "2", ".", "7", "2", "0", "p", ".", "R", "A", "R", "B", "G">>
TitleMovie == <<"M", "o", "v", "i", "e", ".", "2", "0", "2", "0", ".", "1", "0", "8", "0", "p", ".", "Y", "T", "S">>

\* a JackettResult as the backend returns it; "" stands for an absent (null) Link or MagnetUri
Hit(guid, title, size, seeders, peers, link, magnet) ==
    [Guid |-> guid, Title |-> title, Size |-> size, Seeders |-> seeders,
     Peers |-> peers, Link |-> link, MagnetUri |-> magnet]

hPack == Hit("g1", TitlePack, 6, 5, 1, "http://l/1", "")
hEpisode == Hit("g2", TitleEpisode, 2, 4, 1, "", "magnet:2")
hBig == Hit("g3", TitleSeason, 9, 9, 0, "http://l/3", "")
hNoLink == Hit("g4", TitleMovie, 3, 7, 2, "", "")
hDup == Hit("g1", TitleSeason, 3, 8, 2, "http://l/1b", "")
hWeak == Hit("g5", TitleMovie, 3, 1, 4, "http://l/5", "")
hLinked == Hit("g4", TitleMovie, 3, 7, 2, "http://l/4", "")
hTagged == Hit("g6", TitleSeason, 3, 6, 0, "http://l/6", "magnet:6")

\* data.Results of one backend request, before the tracker is known
Responses == {
    <<>>,
    <<hNoLink, hPack, hEpisode, hBig>>,
    <<hLinked, hDup, hWeak, hTagged>> }

\* the hits of a response as indexer i returns them (Tracker: [indexer.id])
FromIndexer(i, response) ==
    [k \in 1..Len(response) |->
        [Guid |-> response[k].Guid, TrackerId |-> i, Title |-> response[k].Title,
         Size |-> response[k].Size, Seeders |-> response[k].Seeders,
         Peers |-> response[k].Peers, Link |-> response[k].Link,
         MagnetUri |-> response[k].MagnetUri]]

\* the calls of search(): the options given by searchMovie/searchEpisode,
\* by searchSeason and by the manual search, and the tag rules configured
SearchCalls == {
    [opts |-> [withoutFilter |-> FALSE, isSeason |-> FALSE, maxSize |-> 8], tags |-> PreferredTags],
    [opts |-> [withoutFilter |-> FALSE, isSeason |-> FALSE, maxSize |-> 8], tags |-> <<>>],
    [opts |-> [withoutFilter |-> FALSE, isSeason |-> TRUE, maxSize |-> 8], tags |-> PreferredTags],
    [opts |-> [withoutFilter |-> TRUE, isSeason |-> FALSE, maxSize |-> 8], tags |-> PreferredTags] }

\* the queries argument of search(); the builders may repeat a query text
QueryLists == { <<"q1", "q2", "q1">> }

(***************************************************************************)
(* toLatin, isLatin and the query builders                                 *)
(***************************************************************************)
\* a character outside ASCII is written by its code point ("U+0411" is the
\* Cyrillic capital letter BE), and so is the grave accent, "U+0060"
cyrillic == <<
    "U+0410", "U+0411", "U+0412", "U+0413", "U+0414", "U+0402", "U+0415", "U+0401", "U+0416",
    "U+0417", "U+0418", "U+0419", "U+0408", "U+041A", "U+041B", "U+0409", "U+041C", "U+041D",
    "U+040A", "U+041E", "U+041F", "U+0420", "U+0421", "U+0422", "U+040B", "U+0423", "U+0424",
    "U+0425", "U+0426", "U+0427", "U+040F", "U+0428", "U+0429", "U+042A", "U+042B", "U+042C",
    "U+042D", "U+042E", "U+042F", "U+0430", "U+0431", "U+0432", "U+0433", "U+0434", "U+0452",
    "U+0435", "U+0451", "U+0436", "U+0437", "U+0438", "U+0439", "U+0458", "U+043A", "U+043B",
    "U+0459", "U+043C", "U+043D", "U+045A", "U+043E", "U+043F", "U+0440", "U+0441", "U+0442",
    "U+045B", "U+0443", "U+0444", "U+0445", "U+0446", "U+0447", "U+045F", "U+0448", "U+0449",
    "U+044A", "U+044B", "U+044C", "U+044D", "U+044E", "U+044F" >>

latin == <<
    <<"A">>, <<"B">>, <<"V">>, <<"G">>, <<"D">>, <<"U+0110">>, <<"E">>, <<"U+00CB">>,
    <<"U+017D">>, <<"Z">>, <<"I">>, <<"J">>, <<"J">>, <<"K">>, <<"L">>, <<"L", "j">>, <<"M">>,
    <<"N">>, <<"N", "j">>, <<"O">>, <<"P">>, <<"R">>, <<"S">>, <<"T">>, <<"U+0106">>, <<"U">>,
    <<"F">>, <<"H">>, <<"C">>, <<"U+010C">>, <<"D", "U+017E">>, <<"U+0160">>, <<"U+015C">>,
    <<"U+02BA">>, <<"Y">>, <<"U+02B9">>, <<"U+00C8">>, <<"U+00DB">>, <<"U+00C2">>, <<"a">>,
    <<"b">>, <<"v">>, <<"g">>, <<"d">>, <<"U+0111">>, <<"e">>, <<"U+00EB">>, <<"U+017E">>,
    <<"z">>, <<"i">>, <<"j">>, <<"j">>, <<"k">>, <<"l">>, <<"l", "j">>, <<"m">>, <<"n">>,
    <<"n", "j">>, <<"o">>, <<"p">>, <<"r">>, <<"s">>, <<"t">>, <<"U+0107">>, <<"u">>, <<"f">>,
    <<"h">>, <<"c">>, <<"U+010D">>, <<"d", "U+017E">>, <<"U+0161">>, <<"U+015D">>,
    <<"U+02BA">>, <<"y">>, <<"U+02B9">>, <<"U+00E8">>, <<"U+00FB">>, <<"U+00E2">> >>

\* toLatin: every character of the cyrillic table is replaced by the entry of
\* the latin table at the index of its first occurrence
toLatin(toTranslate) ==
    LET translate(char) ==
            LET index == {k \in 1..Len(cyrillic) : cyrillic[k] = char}
            IN  IF index = {} THEN <<char>>
                ELSE latin[CHOOSE k \in index : \A j \in index : k <= j]
    IN  Flat([k \in 1..Len(toTranslate) |-> translate(toTranslate[k])])

\* \p{Script=Latin} among the characters of the model: the ASCII letters and
\* the accented letters of the latin table; U+02BA and U+02B9 (modifier letter
\* double prime and prime) have the script Common
LatinScript ==
    {UpperCase[k] : k \in 1..Len(UpperCase)} \cup {LowerCase[k] : k \in 1..Len(LowerCase)}
    \cup {"U+00C2", "U+00C8", "U+00CB", "U+00DB", "U+00E2", "U+00E8", "U+00EB", "U+00FB", "U+0106", "U+0107", "U+010C", "U+010D", "U+0110", "U+0111", "U+015C", "U+015D", "U+0160", "U+0161", "U+017D", "U+017E"}

\* the punctuation of the character class of hasNonLatin
LatinPunctuation ==
    {" ", ".", ",", "/", "#", "!", "$", "%", "^", "&", "*", ";", ":", "{", "}", "=", "-",
     "_", "U+0060", "~", "(", ")", "+", "?", "@"}

isLatin(title) ==
    LET hasNonLatin(char) == char \notin LatinScript \cup Digits \cup LatinPunctuation
    IN  ~\E k \in 1..Len(title) : hasNonLatin(title[k])

DigitChars == <<"0", "1", "2", "3", "4", "5", "6", "7", "8", "9">>

\* a non-negative number in a template literal: its decimal digits
RECURSIVE Decimal(_)
Decimal(n) == IF n < 10 THEN <<DigitChars[n + 1]>> ELSE Append(Decimal(n \div 10), DigitChars[(n % 10) + 1])

\* formatNumber: the number zero-padded to at least two digits
formatNumber(n) == IF n < 10 THEN <<"0">> \o Decimal(n) ELSE Decimal(n)

\* String.prototype.replace('!', ''): the first '!' is removed
ReplaceBang(title) ==
    LET at == {k \in 1..Len(title) : title[k] = "!"}
    IN  IF at = {} THEN title
        ELSE LET first == CHOOSE k \in at : \A j \in at : k <= j
             IN  SubSeq(title, 1, first - 1) \o SubSeq(title, first + 1, Len(title))

\* titles of searchSeason and searchEpisode: the localized title, the English
\* title and the transliterated original title when isLatin accepts it
ShowTitles(title, enTitle, originalTitle) ==
    LET titles == <<title, enTitle>>
        translatedOriginal == toLatin(originalTitle)
    IN  IF isLatin(translatedOriginal) THEN Append(titles, translatedOriginal) ELSE titles

\* variant of the templates without zero padding
SeasonQueriesUnpadded(title, seasonNumber) ==
    << title \o <<" ", "S">> \o Decimal(seasonNumber),
       title \o <<" ", "S">> \o Decimal(seasonNumber),
       title \o <<" ", "S", "e", "a", "s", "o", "n", " ">> \o Decimal(seasonNumber),
       title \o <<" ", "S", "e", "z", "o", "n", "a", " ">> \o Decimal(seasonNumber),
       title \o <<" ", "S", "a", "i", "s", "o", "n", " ">> \o Decimal(seasonNumber),
       title \o <<" ", "e", "0", "1", "-", "e">> >>

\* the six query templates of searchSeason for one title
SeasonQueries(title, seasonNumber) ==
    << title \o <<" ", "S">> \o Decimal(seasonNumber),
       title \o <<" ", "S">> \o formatNumber(seasonNumber),
       title \o <<" ", "S", "e", "a", "s", "o", "n", " ">> \o formatNumber(seasonNumber),
       title \o <<" ", "S", "e", "z", "o", "n", "a", " ">> \o formatNumber(seasonNumber),
       title \o <<" ", "S", "a", "i", "s", "o", "n", " ">> \o formatNumber(seasonNumber),
       title \o <<" ", "e", "0", "1", "-", "e">> >>

\* the queries searchSeason gives to search()
searchSeason(title, enTitle, originalTitle, seasonNumber) ==
    LET titles == ShowTitles(title, enTitle, originalTitle)
        stripped == [k \in 1..Len(Uniq(titles)) |-> ReplaceBang(Uniq(titles)[k])]
    IN  Flat([k \in 1..Len(stripped) |-> SeasonQueries(stripped[k], seasonNumber)])

\* the queries searchMovie gives to search()
searchMovie(title, originalTitle, year) ==
    LET first == << title \o <<" ">> \o year >>
        translatedOriginal == toLatin(originalTitle)
    IN  IF isLatin(translatedOriginal)
        THEN Append(first, translatedOriginal \o <<" ">> \o year)
        ELSE first

\* variant of the dispatch that requests every query of the list
DispatchedAsGiven(queryList) == queryList

\* the queries searchIndexer requests: uniq(queries)
Dispatched(queryList) == Uniq(queryList)

(***************************************************************************)
(* formatSearchResult, parseTag, parseQuality                              *)
(***************************************************************************)
Unknown == <<"u", "n", "k", "n", "o", "w", "n">>

\* JavaScript truthiness of a string
Truthy(str) == str # ""

\* variant of parseTag that takes the last matching rule
parseTagLastRule(normalizedTitle, preferredTags) ==
    LET matches(tag) ==
            \E k \in 1..Len(normalizedTitle) : normalizedTitle[k] = ToLowerCase(tag.name)
        found == {t \in 1..Len(preferredTags) : matches(preferredTags[t])}
        unknownScore == IF Len(preferredTags) > 0 THEN 0 ELSE 1
    IN  IF found # {}
        THEN LET tagMatch == preferredTags[CHOOSE t \in found : \A u \in found : t >= u]
             IN  [label |-> tagMatch.name, score |-> tagMatch.score]
        ELSE [label |-> Unknown, score |-> unknownScore]

parseTag(normalizedTitle, preferredTags) ==
    LET matches(tag) ==
            \E k \in 1..Len(normalizedTitle) : normalizedTitle[k] = ToLowerCase(tag.name)
        found == {t \in 1..Len(preferredTags) : matches(preferredTags[t])}
        unknownScore == IF Len(preferredTags) > 0 THEN 0 ELSE 1
    IN  IF found # {}
        THEN LET tagMatch == preferredTags[CHOOSE t \in found : \A u \in found : t <= u]
             IN  [label |-> tagMatch.name, score |-> tagMatch.score]
        ELSE [label |-> Unknown, score |-> unknownScore]

\* variant of parseQuality that takes the matching rule of the highest score
parseQualityBestScore(normalizedTitle, qualityParams) ==
    LET matches(quality) ==
            \E m \in 1..Len(quality.match) : \E k \in 1..Len(normalizedTitle) :
                normalizedTitle[k] = ToLowerCase(quality.match[m])
        found == {t \in 1..Len(qualityParams) : matches(qualityParams[t])}
    IN  IF found # {}
        THEN LET qualityMatch ==
                    qualityParams[CHOOSE t \in found :
                        \A u \in found : qualityParams[t].score >= qualityParams[u].score]
             IN  [label |-> qualityMatch.name, score |-> qualityMatch.score]
        ELSE [label |-> Unknown, score |-> 0]

parseQuality(normalizedTitle, qualityParams) ==
    LET matches(quality) ==
            \E m \in 1..Len(quality.match) : \E k \in 1..Len(normalizedTitle) :
                normalizedTitle[k] = ToLowerCase(quality.match[m])
        found == {t \in 1..Len(qualityParams) : matches(qualityParams[t])}
    IN  IF found # {}
        THEN LET qualityMatch == qualityParams[CHOOSE t \in found : \A u \in found : t <= u]
             IN  [label |-> qualityMatch.name, score |-> qualityMatch.score]
        ELSE [label |-> Unknown, score |-> 0]

formatSearchResult(result, qualityParams, preferredTags) ==
    LET normalizedTitle == sanitize(result.Title)
        normalizedTitleParts == SplitParts(normalizedTitle, 1, <<>>)
    IN  [normalizedTitle |-> normalizedTitle,
         normalizedTitleParts |-> normalizedTitleParts,
         id |-> result.Guid,
         indexer |-> result.TrackerId,
         title |-> result.Title,
         quality |-> parseQuality(normalizedTitleParts, qualityParams),
         size |-> result.Size,
         seeders |-> result.Seeders,
         peers |-> result.Peers,
         link |-> result.Guid,
         downloadLink |-> IF Truthy(result.MagnetUri) THEN result.MagnetUri ELSE result.Link,
         tag |-> parseTag(normalizedTitleParts, preferredTags)]

(***************************************************************************)
(* searchIndexer: the acceptance filter and the result pipeline            *)
(***************************************************************************)
hasAcceptableSize(result, maxSize) == result.size < maxSize

hasSeeders(result) == result.seeders >= 0 /\ result.seeders > result.peers

\* variant of the tag test that lets an unmatched candidate pass
hasTagOrUnknown(result) == result.tag.score >= 0

hasTag(result) == result.tag.score > 0

\* variant of the episode heuristic without the double-episode exception
isEpisodeWithoutException(result) ==
    \E k \in 1..Len(result.normalizedTitleParts) :
        MatchEpisodeIndicator(result.normalizedTitleParts[k])

isEpisode(result) ==
    \E k \in 1..Len(result.normalizedTitleParts) :
        /\ MatchEpisodeIndicator(result.normalizedTitleParts[k])
        /\ ~MatchDoubleEpisode(result.normalizedTitle)

\* variant of the filter that does not look at the size
AcceptResultIgnoringSize(result, o) ==
    IF o.withoutFilter THEN TRUE
    ELSE IF o.isSeason
         THEN hasSeeders(result) /\ ~isEpisode(result)
         ELSE hasSeeders(result) /\ hasTag(result)

\* the callback of the last .filter() of searchIndexer
AcceptResult(result, o) ==
    IF o.withoutFilter THEN TRUE
    ELSE IF o.isSeason
         THEN hasAcceptableSize(result, o.maxSize) /\ hasSeeders(result) /\ ~isEpisode(result)
         ELSE hasAcceptableSize(result, o.maxSize) /\ hasSeeders(result) /\ hasTag(result)

\* variant of the link filter that keeps every raw hit
HasLinkOrNot(result) == TRUE

HasLink(result) == Truthy(result.Link) \/ Truthy(result.MagnetUri)

\* uniqBy(rawResults.flat(), 'Guid').filter(link).map(format).filter(accept)
IndexerResults(rawResults, o, preferredTags) ==
    LET unique == UniqByGuid(Flat(rawResults))
        linked == SelectSeq(unique, HasLink)
        Format(result) == formatSearchResult(result, QualityParams, preferredTags)
        formatted == MapSeq(linked, Format)
        Accept(result) == AcceptResult(result, o)
    IN  SelectSeq(formatted, Accept)

(***************************************************************************)
(* search: ranking, selection and the error policy                         *)
(***************************************************************************)
\* the iteratees ['indexer', 'tag.score', 'quality.score', 'seeders']
SortKey(c) == <<c.indexer, c.tag.score, c.quality.score, c.seeders>>

\* variant of the comparator whose last order is asc
SortsBeforeSeedersAscending(a, b) ==
    \/ \E k \in 1..3 :
        /\ \A j \in 1..(k - 1) : SortKey(a)[j] = SortKey(b)[j]
        /\ SortKey(a)[k] > SortKey(b)[k]
    \/ /\ \A j \in 1..3 : SortKey(a)[j] = SortKey(b)[j]
       /\ SortKey(a)[4] < SortKey(b)[4]

\* the multi-key comparator of orderBy with orders desc, desc, desc, desc:
\* a sorts strictly before b
SortsBefore(a, b) ==
    \E k \in 1..4 :
        /\ \A j \in 1..(k - 1) : SortKey(a)[j] = SortKey(b)[j]
        /\ SortKey(a)[k] > SortKey(b)[k]

\* insertion of x behind every element it does not sort strictly before
InsertSorted(sorted, x) ==
    LET before == {k \in 1..Len(sorted) : SortsBefore(x, sorted[k])}
        pos == IF before = {} THEN Len(sorted) + 1
               ELSE CHOOSE k \in before : \A j \in before : k <= j
    IN  SubSeq(sorted, 1, pos - 1) \o <<x>> \o SubSeq(sorted, pos, Len(sorted))

\* lodash orderBy: a stable sort by the comparator
RECURSIVE orderBy(_)
orderBy(s) ==
    IF s = <<>> THEN <<>>
    ELSE InsertSorted(orderBy(SubSeq(s, 1, Len(s) - 1)), s[Len(s)])

\* Boolean(item)
Boolean(item) == item # Undefined

\* the selection of search(): sortedByBest, or [sortedByBest[0]]
Select(sortedByBest, o) ==
    IF o.withoutFilter THEN sortedByBest
    ELSE << IF Len(sortedByBest) > 0 THEN sortedByBest[1] ELSE Undefined >>

\* the try block of search() after the fan-out has resolved
SearchTry(resolvedIndexers, o) ==
    LET Items(item) == item.items
        flattenIndexers == Flat(MapSeq(SelectSeq(resolvedIndexers, Boolean), Items))
        sortedByBest == orderBy(flattenIndexers)
    IN  [kind |-> "return", value |-> Select(sortedByBest, o)]

\* a thrown value: an array of errors, or a single error
ErrorArray(errors) == [isArray |-> TRUE, items |-> errors, message |-> ""]
Error(message) == [isArray |-> FALSE, items |-> <<>>, message |-> message]

\* variant of the catch block: the aggregate is never read as "no results"
SearchCatchAlwaysThrows(error) ==
    IF error.isArray /\ Len(error.items) > 0
    THEN [kind |-> "throw", error |-> error.items[1]]
    ELSE [kind |-> "throw", error |-> error]

\* variant of the catch block: the aggregate is thrown as it was caught
SearchCatchThrowsList(error) ==
    IF error.isArray /\ Len(error.items) > 0 /\ error.items[1].message = noResultsError
    THEN [kind |-> "return", value |-> <<>>]
    ELSE [kind |-> "throw", error |-> error]

\* the catch block of search()
SearchCatch(error) ==
    IF error.isArray /\ Len(error.items) = 0
    THEN [kind |-> "throw", error |-> Error("TypeError")]
    ELSE IF error.isArray /\ error.items[1].message = noResultsError
    THEN [kind |-> "return", value |-> <<>>]
    ELSE IF error.isArray
    THEN [kind |-> "throw", error |-> error.items[1]]
    ELSE [kind |-> "throw", error |-> error]

(***************************************************************************)
(* PromiseRaceAll (src/utils/promise-resolve): the fan-out executor        *)
(***************************************************************************)
Settled(t) == t.pc \in {"resolved", "rejected"}

\* an element of the array the fan-out resolves with
Fulfilled(results) == [undefined |-> FALSE, items |-> results]

\* the errors of the rejected tasks among indexers 1..n, in indexer order
RECURSIVE TaskErrors(_, _)
TaskErrors(t, n) ==
    IF n = 0 THEN <<>>
    ELSE IF t[n].pc = "rejected" THEN Append(TaskErrors(t, n - 1), t[n].error)
    ELSE TaskErrors(t, n - 1)

\* the results of the resolved tasks among indexers 1..n, in indexer order
RECURSIVE TaskResults(_, _)
TaskResults(t, n) ==
    IF n = 0 THEN <<>>
    ELSE IF t[n].pc = "resolved" THEN Append(TaskResults(t, n - 1), Fulfilled(t[n].results))
    ELSE TaskResults(t, n - 1)

\* variant of the executor: it waits for every task, whatever the deadline
FanoutSettlesWhenAllDone(t, tm) == \A i \in Indexers : Settled(t[i])

\* the executor stops waiting: every task has completed, or the deadline elapsed
FanoutSettles(t, tm) == (\A i \in Indexers : Settled(t[i])) \/ tm = "fired"

\* variant of the executor: one failed task fails the batch
PromiseRaceAllFailFast(t) ==
    IF \E i \in Indexers : t[i].pc = "rejected"
    THEN [kind |-> "rejected", error |-> ErrorArray(TaskErrors(t, NumIndexers))]
    ELSE [kind |-> "resolved", value |-> TaskResults(t, NumIndexers)]

\* what the executor settles with: the aggregate of the per-task errors when
\* every task failed, otherwise the successful results obtained so far
PromiseRaceAll(t) ==
    IF \A i \in Indexers : t[i].pc = "rejected"
    THEN [kind |-> "rejected", error |-> ErrorArray(TaskErrors(t, NumIndexers))]
    ELSE [kind |-> "resolved", value |-> TaskResults(t, NumIndexers)]

(***************************************************************************)
(* The state machine of one search() call                                  *)
(***************************************************************************)
\* late records that the promise settled after the deadline had elapsed
IdleTask ==
    [pc |-> "idle", qi |-> 0, rawResults |-> <<>>, results |-> <<>>, error |-> Error(""),
     late |-> FALSE]

\* the continuation of search() runs before any other callback once the
\* fan-out has settled: the tasks make no step in between
TaskMayStep == phase \in {"waiting", "done"}

\* no pure function is called during a search
NoCall == [fn |-> "none"]

\* the download-finished script is not running
NoScript == [pc |-> "none"]

Pending == [kind |-> "pending"]

Init ==
    /\ \E search \in SearchCalls : opts = search.opts /\ tagRules = search.tags
    /\ queries \in QueryLists
    /\ phase = "init"
    /\ task = [i \in Indexers |-> IdleTask]
    /\ timer = "idle"
    /\ joinValue = Pending
    /\ settledAtJoin = {}
    /\ outcome = Pending
    /\ script = NoScript
    /\ call = NoCall
    /\ ret = NoCall

\* the await of PromiseRaceAll continues as soon as the executor settles
Join(t, tm) ==
    IF phase = "waiting" /\ FanoutSettles(t, tm)
    THEN /\ phase' = "joined"
         /\ joinValue' = PromiseRaceAll(t)
         /\ settledAtJoin' = {i \in Indexers : t[i].pc = "resolved"}
    ELSE UNCHANGED <<phase, joinValue, settledAtJoin>>

\* search(): getConfiguredIndexers() answers, every searchIndexer() is called
\* and the fan-out starts waiting
StartSearch ==
    /\ phase = "init"
    /\ phase' = "waiting"
    /\ task' = [i \in Indexers |-> [IdleTask EXCEPT !.pc = "params"]]
    /\ timer' = "armed"
    /\ UNCHANGED <<script, call, ret, opts, queries, tagRules, joinValue, settledAtJoin, outcome>>

\* search(): getConfiguredIndexers() fails, outside the try block
IndexersFail ==
    /\ phase = "init"
    /\ \E m \in ErrorMessages :
        /\ phase' = "done"
        /\ outcome' = [kind |-> "throw", error |-> Error(m)]
    /\ UNCHANGED <<script, call, ret, opts, queries, tagRules, task, timer, joinValue, settledAtJoin>>

\* variant of searchIndexer() that starts with the request of the second query
\* while the first one has not been answered
LoadParamsRequestsAhead(i) ==
    /\ TaskMayStep
    /\ task[i].pc = "params"
    /\ task' = [task EXCEPT ![i].pc = "request", ![i].qi = 2]
    /\ UNCHANGED <<script, call, ret, opts, queries, tagRules, phase, timer, joinValue, settledAtJoin, outcome>>

\* searchIndexer(): getQualities() and getTags() answer, the first request is issued
LoadParams(i) ==
    /\ TaskMayStep
    /\ task[i].pc = "params"
    /\ task' = [task EXCEPT ![i].pc = "request", ![i].qi = 1]
    /\ UNCHANGED <<script, call, ret, opts, queries, tagRules, phase, timer, joinValue, settledAtJoin, outcome>>

\* searchIndexer(): getQualities() or getTags() throws, the task rejects
ParamsFail(i) ==
    /\ TaskMayStep
    /\ task[i].pc = "params"
    /\ \E m \in ErrorMessages :
        /\ task' = [task EXCEPT ![i].pc = "rejected", ![i].error = Error(m),
                                ![i].late = (timer = "fired")]
        /\ Join(task', timer)
    /\ UNCHANGED <<script, call, ret, opts, queries, tagRules, timer, outcome>>

\* the mapSeries callback has the Results of the request in flight (or [] when the
\* request failed): the next query is requested, or the results are computed
AfterRequest(i, results) ==
    LET rawResults == Append(task[i].rawResults, results)
    IN  /\ task' =
            IF task[i].qi < Len(Uniq(queries))
            THEN [task EXCEPT ![i].rawResults = rawResults, ![i].qi = task[i].qi + 1]
            ELSE [task EXCEPT ![i].rawResults = rawResults, ![i].pc = "resolved",
                              ![i].results = IndexerResults(rawResults, opts, tagRules),
                              ![i].late = (timer = "fired")]
        /\ Join(task', timer)

\* the backend answers the request in flight of indexer i
RequestReturns(i) ==
    /\ TaskMayStep
    /\ task[i].pc = "request"
    /\ \E response \in Responses : AfterRequest(i, FromIndexer(i, response))
    /\ UNCHANGED <<script, call, ret, opts, queries, tagRules, timer, outcome>>

\* variant of the failure handler: the error propagates and the task rejects
RequestFailsPropagates(i) ==
    /\ TaskMayStep
    /\ task[i].pc = "request"
    /\ task' = [task EXCEPT ![i].pc = "rejected", ![i].error = Error("ECONNREFUSED"),
                            ![i].late = (timer = "fired")]
    /\ Join(task', timer)
    /\ UNCHANGED <<script, call, ret, opts, queries, tagRules, timer, outcome>>

\* the request in flight of indexer i fails (transport or parse error)
RequestFails(i) ==
    /\ TaskMayStep
    /\ task[i].pc = "request"
    /\ AfterRequest(i, <<>>)
    /\ UNCHANGED <<script, call, ret, opts, queries, tagRules, timer, outcome>>

\* the deadline of the fan-out elapses
Deadline ==
    /\ timer = "armed"
    /\ phase = "waiting"
    /\ timer' = "fired"
    /\ Join(task, timer')
    /\ UNCHANGED <<script, call, ret, opts, queries, tagRules, task, outcome>>

\* variant of search() that ranks what the tasks have so far, without waiting
\* for the fan-out
ResumeWithoutJoin ==
    /\ phase = "waiting"
    /\ phase' = "done"
    /\ joinValue' = PromiseRaceAll(task)
    /\ settledAtJoin' = {i \in Indexers : task[i].pc = "resolved"}
    /\ outcome' = IF joinValue'.kind = "resolved"
                  THEN SearchTry(joinValue'.value, opts)
                  ELSE SearchCatch(joinValue'.error)
    /\ UNCHANGED <<script, call, ret, opts, queries, tagRules, task, timer>>

\* search() continues after the await: the try block, or the catch block
Resume ==
    /\ phase = "joined"
    /\ phase' = "done"
    /\ outcome' = IF joinValue.kind = "resolved"
                  THEN SearchTry(joinValue.value, opts)
                  ELSE SearchCatch(joinValue.error)
    /\ UNCHANGED <<script, call, ret, opts, queries, tagRules, task, timer, joinValue, settledAtJoin>>

Next ==
    \/ StartSearch
    \/ IndexersFail
    \/ \E i \in Indexers : LoadParams(i)
    \/ \E i \in Indexers : ParamsFail(i)
    \/ \E i \in Indexers : RequestReturns(i)
    \/ \E i \in Indexers : RequestFails(i)
    \/ Deadline
    \/ Resume

Spec == Init /\ [][Next]_vars

(***************************************************************************)
(* Vocabulary of the properties                                            *)
(***************************************************************************)
\* search() has settled after a fan-out
Finished == phase = "done" /\ joinValue.kind # "pending"

Returned == Finished /\ outcome.kind = "return"

Thrown == Finished /\ outcome.kind = "throw"

Automated == ~opts.withoutFilter

\* the elements of the returned list
ReturnedList == IF Returned THEN outcome.value ELSE <<>>

\* the candidates among them
ReturnedCandidates == {ReturnedList[k] : k \in 1..Len(ReturnedList)} \ {Undefined}

\* the candidates that passed the filter of a task that had resolved when the
\* fan-out settled
PassedAtJoin ==
    UNION {{task[i].results[k] : k \in 1..Len(task[i].results)} : i \in settledAtJoin}

\* the raw hits of the tasks that had resolved when the fan-out settled
RawHitsAtJoin ==
    UNION {{Flat(task[i].rawResults)[k] : k \in 1..Len(Flat(task[i].rawResults))} :
           i \in settledAtJoin}

\* key a is lexicographically greater than or equal to key b
KeyGeq(a, b) ==
    \/ a = b
    \/ \E k \in 1..Len(a) : a[k] > b[k] /\ \A j \in 1..(k - 1) : a[j] = b[j]

RankKey(c) == <<c.indexer, c.tag.score, c.quality.score, c.seeders>>

(***************************************************************************)
(* C1 - C5: selection, error policy and the deadline                       *)
(***************************************************************************)
\* C1: in automated mode search() returns at most one element: exactly the
\* top-ranked candidate when a candidate passed the filter, and the empty list
\* (no placeholder element) when none did.
C1_AutomatedTopOrEmpty ==
    (Returned /\ Automated) =>
        /\ Len(outcome.value) <= 1
        /\ PassedAtJoin = {} => outcome.value = <<>>
        /\ PassedAtJoin # {} =>
            /\ Len(outcome.value) = 1
            /\ outcome.value[1] \in PassedAtJoin
            /\ \A c \in PassedAtJoin : KeyGeq(RankKey(outcome.value[1]), RankKey(c))

\* C2 as stated: when every indexer task throws, search() resolves to an
\* empty list and does not raise.
C2_AllThrowResolvesEmpty ==
    (Finished /\ joinValue.kind = "rejected") =>
        outcome = [kind |-> "return", value |-> <<>>]

\* C2 amended: when every indexer task has thrown before the deadline and the
\* first error of the aggregate carries the message NO_RESULTS, search()
\* resolves to an empty list and does not raise.
C2_AllThrowNoResultsResolvesEmpty ==
    (Finished /\ joinValue.kind = "rejected"
        /\ joinValue.error.items[1].message = noResultsError) =>
        outcome = [kind |-> "return", value |-> <<>>]

C2_Witness ==
    /\ Finished
    /\ \A i \in Indexers : task[i].pc = "rejected"
    /\ task[1].error.message = noResultsError
    /\ \E i \in Indexers : task[i].error.message # noResultsError
    /\ outcome.kind = "return"

\* C3: when all tasks fail and the aggregate is not the no-results marker,
\* search() raises the first per-task error of the aggregate, a single error
\* and not the list; a failure that is no aggregate list is raised unchanged.
C3_AggregateRaisesFirstError ==
    /\ (Finished /\ joinValue.kind = "rejected"
            /\ joinValue.error.items[1].message # noResultsError) =>
        /\ outcome.kind = "throw"
        /\ ~outcome.error.isArray
        /\ outcome.error = joinValue.error.items[1]
        /\ outcome.error = task[1].error
    /\ \A m \in ErrorMessages :
        SearchCatch(Error(m)) = [kind |-> "throw", error |-> Error(m)]

C3_Witness ==
    /\ Thrown
    /\ \A i \in Indexers : task[i].pc = "rejected"
    /\ \E i \in Indexers : task[i].error.message = noResultsError
    /\ outcome.error = Error("ECONNREFUSED")

\* C4: if at least one indexer task succeeds before the deadline, the failure
\* of another task never makes search() fail: it resolves with a result made
\* of candidates of the successful tasks only.
C4_PartialFailureTolerated ==
    (Finished /\ \E i \in Indexers : task[i].pc = "resolved" /\ ~task[i].late) =>
        /\ outcome.kind = "return"
        /\ ReturnedCandidates \subseteq PassedAtJoin
        /\ \A c \in ReturnedCandidates : task[c.indexer].pc = "resolved"

C4_Witness ==
    /\ Returned
    /\ \E i \in Indexers : task[i].pc = "rejected" /\ ~task[i].late
    /\ \E i \in Indexers : task[i].pc = "resolved" /\ ~task[i].late
    /\ ReturnedCandidates # {}

\* C5: search() waits no longer than until every task has completed or the
\* deadline has elapsed, and no candidate of a task that completes after the
\* deadline is in the returned list.
C5_DeadlineBoundsTheWait ==
    /\ phase = "waiting" =>
        /\ timer # "fired"
        /\ \E i \in Indexers : ~Settled(task[i])
    /\ \A c \in ReturnedCandidates : ~task[c.indexer].late

C5_Witness ==
    /\ Returned
    /\ timer = "fired"
    /\ ReturnedCandidates # {}
    /\ \E i \in Indexers :
        /\ task[i].pc = "resolved" /\ task[i].late
        /\ task[i].results # <<>>

(***************************************************************************)
(* C6 - C10: deduplication, manual mode, ranking and the acceptance filter *)
(***************************************************************************)
\* C6: no two candidates of the returned list have the same identifier, also
\* when two indexers or two queries return the same Guid.
C6_ReturnedGuidsDistinct ==
    \A j \in 1..Len(ReturnedList) : \A k \in 1..Len(ReturnedList) :
        (j < k /\ ReturnedList[j] # Undefined /\ ReturnedList[k] # Undefined) =>
            ReturnedList[j].id # ReturnedList[k].id

\* the identifiers of the raw hits that have a link or a magnet URI
LinkedGuidsAtJoin == {h.Guid : h \in {x \in RawHitsAtJoin : HasLink(x)}}

\* C7: in manual mode the returned list has exactly one candidate per distinct
\* identifier among the raw hits that have a link or a magnet URI.
C7_ManualOnePerLinkedGuid ==
    (Returned /\ opts.withoutFilter) =>
        /\ {c.id : c \in ReturnedCandidates} = LinkedGuidsAtJoin
        /\ Len(ReturnedList) = Cardinality(LinkedGuidsAtJoin)

\* C8: the manual list is in descending order of the key (indexer, tag.score,
\* quality.score, seeders); the candidate of an automated search has a key
\* greater than or equal to that of every candidate that passed the filter.
C8_RankedDescending ==
    /\ (Returned /\ opts.withoutFilter) =>
        \A k \in 1..(Len(ReturnedList) - 1) :
            KeyGeq(RankKey(ReturnedList[k]), RankKey(ReturnedList[k + 1]))
    /\ (Returned /\ Automated) =>
        \A c \in ReturnedCandidates : \A d \in PassedAtJoin :
            KeyGeq(RankKey(c), RankKey(d))

C8_Witness ==
    /\ Returned /\ opts.withoutFilter
    /\ Len(ReturnedList) >= 4
    /\ \E k \in 1..(Len(ReturnedList) - 1) :
        /\ ReturnedList[k].indexer = ReturnedList[k + 1].indexer
        /\ ReturnedList[k].tag.score > ReturnedList[k + 1].tag.score
    /\ \E k \in 1..(Len(ReturnedList) - 1) :
        /\ ReturnedList[k].indexer = ReturnedList[k + 1].indexer
        /\ ReturnedList[k].tag.score = ReturnedList[k + 1].tag.score
        /\ ReturnedList[k].quality.score = ReturnedList[k + 1].quality.score
        /\ ReturnedList[k].seeders > ReturnedList[k + 1].seeders
    /\ \E k \in 1..(Len(ReturnedList) - 1) :
        ReturnedList[k].indexer > ReturnedList[k + 1].indexer

\* C9: every candidate an automated search returns, and every candidate an
\* automated indexer task resolves with, has size < maxSize, seeders >= 0 and
\* seeders > peers.
C9_AutomatedCandidatesAcceptable ==
    Automated =>
        \A c \in ReturnedCandidates \cup
                 UNION {{task[i].results[k] : k \in 1..Len(task[i].results)} : i \in Indexers} :
            /\ c.size < opts.maxSize
            /\ c.seeders >= 0
            /\ c.seeders > c.peers

\* the only hits of a higher-ranked indexer that could pass are above the size
\* bound, and the candidate of a lower-ranked indexer is returned
C9_Witness ==
    /\ Returned /\ Automated
    /\ \E c \in ReturnedCandidates : \E i \in settledAtJoin :
        /\ i > c.indexer
        /\ task[i].results = <<>>
        /\ \E h \in {x \in RawHitsAtJoin : x.TrackerId = i} :
            /\ h.Size >= opts.maxSize
            /\ HasLink(h) /\ h.Seeders > h.Peers

\* a token that is an episode indicator: e<number>, episode or ep<number>
IsIndicatorToken(part) ==
    \/ Len(part) >= 2 /\ part[1] = "e" /\ DigitRun(part, 2, Len(part))
    \/ part = <<"e", "p", "i", "s", "o", "d", "e">>
    \/ Len(part) >= 3 /\ part[1] = "e" /\ part[2] = "p" /\ DigitRun(part, 3, Len(part))

\* the candidates the acceptance filter of task i was applied to
FilterInput(i) ==
    LET linked == SelectSeq(UniqByGuid(Flat(task[i].rawResults)), HasLink)
    IN  {formatSearchResult(linked[k], QualityParams, tagRules) : k \in 1..Len(linked)}

TaskResultSet(i) == {task[i].results[k] : k \in 1..Len(task[i].results)}

\* C10: in a season-level automated search a candidate with a single-episode
\* indicator token and no double episode-number pattern in its title is
\* rejected, and a candidate with a double episode-number pattern (and with
\* acceptable size and seeders > peers) is accepted; the tokens
\* [show, s02, e05, 1080p] are rejected, [show, s02, e01e10, 1080p] accepted.
C10_SeasonEpisodeHeuristic ==
    (opts.isSeason /\ Automated) =>
        \A i \in {x \in Indexers : task[x].pc = "resolved"} : \A c \in FilterInput(i) :
            /\ ( /\ \E k \in 1..Len(c.normalizedTitleParts) :
                        IsIndicatorToken(c.normalizedTitleParts[k])
                 /\ ~MatchDoubleEpisode(c.normalizedTitle) )
               => c \notin TaskResultSet(i)
            /\ ( /\ MatchDoubleEpisode(c.normalizedTitle)
                 /\ c.size < opts.maxSize
                 /\ c.seeders >= 0 /\ c.seeders > c.peers )
               => c \in TaskResultSet(i)
            /\ c.normalizedTitleParts = << <<"s", "h", "o", "w">>, <<"s", "0", "2">>, <<"e", "0", "5">>, <<"1", "0", "8", "0", "p">> >>
               => c \notin TaskResultSet(i)
            /\ ( /\ c.normalizedTitleParts = << <<"s", "h", "o", "w">>, <<"s", "0", "2">>, <<"e", "0", "1", "e", "1", "0">>, <<"1", "0", "8", "0", "p">> >>
                 /\ c.size < opts.maxSize
                 /\ c.seeders >= 0 /\ c.seeders > c.peers )
               => c \in TaskResultSet(i)

C10_Witness ==
    /\ Returned /\ opts.isSeason /\ Automated
    /\ \E i \in settledAtJoin :
        /\ \E c \in FilterInput(i) :
            /\ c.normalizedTitleParts = << <<"s", "h", "o", "w">>, <<"s", "0", "2">>, <<"e", "0", "5">>, <<"1", "0", "8", "0", "p">> >>
            /\ c.size < opts.maxSize /\ c.seeders > c.peers
            /\ c \notin TaskResultSet(i)
        /\ \E c \in TaskResultSet(i) :
            c.normalizedTitleParts = << <<"s", "h", "o", "w">>, <<"s", "0", "2">>, <<"e", "0", "1", "e", "1", "0">>, <<"1", "0", "8", "0", "p">> >>
(***************************************************************************)
(* C11 - C14: tags, links and failed requests                              *)
(***************************************************************************)
\* the candidates of every indexer task
AllTaskResults == UNION {TaskResultSet(i) : i \in Indexers}

\* C11: every candidate an automated non-season search returns (or one of its
\* indexer tasks resolves with) has tag.score > 0; a season search accepts or
\* rejects a candidate whatever its tag score is; with an empty tag-rule list
\* every candidate of a non-season search has tag score 1 and none is rejected
\* because of its tag.
C11_TagRequiredOutsideSeason ==
    /\ (Automated /\ ~opts.isSeason) =>
        \A c \in ReturnedCandidates \cup AllTaskResults : c.tag.score > 0
    /\ (Automated /\ opts.isSeason) =>
        \A i \in {x \in Indexers : task[x].pc = "resolved"} : \A c \in FilterInput(i) :
            c \in TaskResultSet(i) <=>
                (c.size < opts.maxSize /\ c.seeders >= 0 /\ c.seeders > c.peers
                    /\ ~isEpisode(c))
    /\ (Automated /\ ~opts.isSeason /\ tagRules = <<>>) =>
        \A i \in {x \in Indexers : task[x].pc = "resolved"} : \A c \in FilterInput(i) :
            /\ c.tag.score = 1
            /\ c \in TaskResultSet(i) <=>
                (c.size < opts.maxSize /\ c.seeders >= 0 /\ c.seeders > c.peers)

\* a movie search with tag rules rejects an otherwise acceptable candidate
\* that matches no rule and returns one that matches a rule
C11_Witness ==
    /\ Returned /\ Automated /\ ~opts.isSeason /\ tagRules # <<>>
    /\ ReturnedCandidates # {}
    /\ \E i \in settledAtJoin : \E c \in FilterInput(i) :
        /\ c.tag.score = 0
        /\ c.size < opts.maxSize /\ c.seeders > c.peers
        /\ c \notin TaskResultSet(i)

\* the raw hits task i has received
RawHits(i) == {Flat(task[i].rawResults)[k] : k \in 1..Len(Flat(task[i].rawResults))}

\* candidate c is the canonical form of the raw hit h
StemsFrom(c, h) ==
    /\ c.id = h.Guid /\ c.indexer = h.TrackerId /\ c.title = h.Title
    /\ c.size = h.Size /\ c.seeders = h.Seeders /\ c.peers = h.Peers
    /\ c.downloadLink = (IF Truthy(h.MagnetUri) THEN h.MagnetUri ELSE h.Link)

\* C13: a raw hit with neither a link nor a magnet URI is in the result of no
\* indexer task and of no search, automated or manual; dropping it raises no
\* error (the task resolves, the search returns); every candidate of a result
\* has a non-empty download link and stems from a raw hit that has a link or a
\* magnet URI.
C13_UnlinkedHitsDropped ==
    /\ \A i \in Indexers : \A h \in {x \in RawHits(i) : ~HasLink(x)} :
        /\ \A c \in TaskResultSet(i) \cup ReturnedCandidates : ~StemsFrom(c, h)
        /\ task[i].pc # "rejected"
        /\ (Finished /\ i \in settledAtJoin) => outcome.kind = "return"
    /\ \A c \in ReturnedCandidates \cup AllTaskResults :
        /\ Truthy(c.downloadLink)
        /\ \E h \in RawHits(c.indexer) : HasLink(h) /\ StemsFrom(c, h)

\* a manual search returns the linked hits of a task that also received a hit
\* without link and magnet URI
C13_Witness ==
    /\ Returned /\ opts.withoutFilter
    /\ \E i \in settledAtJoin :
        /\ \E h \in RawHits(i) : ~HasLink(h)
        /\ \E c \in ReturnedCandidates : c.indexer = i

\* the candidates of a list
Elements(list) == {list[k] : k \in 1..Len(list)}

\* C14: a step in which the backend request of one (query, indexer) pair fails
\* adds an empty list for that pair to the raw results of the task and nothing
\* else: the task does not reject and search() does not settle with an error
\* by it; the next query of the same indexer is requested if there is one, and
\* otherwise the task resolves with every candidate it had obtained from the
\* other queries.  (A RequestFails step is a step of task i from a request in
\* flight that brings no new hit: these tests come first, they are cheap.)
C14_FailedRequestAbsorbed ==
    [][\A i \in Indexers :
        ( /\ task[i].pc = "request"
          /\ task'[i].pc # task[i].pc \/ task'[i].qi # task[i].qi
          /\ Flat(task'[i].rawResults) = Flat(task[i].rawResults)
          /\ RequestFails(i) ) =>
        /\ task'[i].rawResults = Append(task[i].rawResults, <<>>)
        /\ task'[i].error = task[i].error
        /\ task'[i].pc \in {"request", "resolved"}
        /\ task[i].qi < Len(Uniq(queries)) =>
            task'[i].pc = "request" /\ task'[i].qi = task[i].qi + 1
        /\ task[i].qi = Len(Uniq(queries)) =>
            /\ task'[i].pc = "resolved"
            /\ Elements(IndexerResults(task[i].rawResults, opts, tagRules))
                    = Elements(task'[i].results)
        /\ outcome' = outcome
        /\ \A j \in Indexers \ {i} : task'[j] = task[j]]_vars

\* the first request of a task yielded the empty list, the second one hits,
\* and a candidate of these hits is in the returned list
C14_Witness ==
    /\ Returned
    /\ \E i \in settledAtJoin :
        /\ Len(task[i].rawResults) = 2
        /\ task[i].rawResults[1] = <<>>
        /\ task[i].rawResults[2] # <<>>
        /\ \E c \in ReturnedCandidates :
            /\ c.indexer = i
            /\ \E h \in Elements(task[i].rawResults[2]) : h.Guid = c.id

(***************************************************************************)
(* C20: ranking after the join                                             *)
(***************************************************************************)
\* the list in another order
Reordered(list, p) == [k \in 1..Len(list) |-> list[p[k]]]

\* nothing is ranked or returned while the join is waiting, and search() has
\* an outcome after a fan-out only if the fan-out has finished
RankedAfterJoin ==
    /\ phase \in {"waiting", "joined"} => outcome = Pending
    /\ phase = "waiting" => joinValue = Pending
    /\ (outcome # Pending /\ timer # "idle") =>
        /\ joinValue # Pending
        /\ timer = "fired" \/ \A i \in Indexers : Settled(task[i])

\* the result is the same for every order of the per-task results the fan-out
\* resolved with
OrderOfCompletionIrrelevant ==
    (Finished /\ joinValue.kind = "resolved") =>
        \A p \in Permutations(1..Len(joinValue.value)) :
            SearchTry(Reordered(joinValue.value, p), opts) = outcome

\* C20: within one search() call the ranking and the selection happen only
\* after the fan-out join has finished, that is after every indexer task has
\* completed or the deadline has elapsed: no candidate is ranked or returned
\* while the join is waiting, the outcome is set by the step that follows the
\* join (or by a failure of getConfiguredIndexers before the fan-out) and
\* never changes afterwards, and the order in which the indexer tasks complete
\* does not change the returned result for a fixed set of completed tasks.
C20_RankingAfterJoin ==
    /\ [](RankedAfterJoin /\ OrderOfCompletionIrrelevant)
    /\ [][outcome' # outcome => (outcome = Pending /\ phase \in {"joined", "init"})]_vars

\* two tasks resolved before the fan-out finished and a ranked list with
\* candidates of both is returned
C20_Witness ==
    /\ Returned /\ opts.withoutFilter
    /\ Cardinality(settledAtJoin) >= 2
    /\ \A i \in settledAtJoin : \E c \in ReturnedCandidates : c.indexer = i
    /\ Len(ReturnedList) >= 4

(***************************************************************************)
(* C22: the requests of one indexer task                                   *)
(***************************************************************************)
\* the positions, in uniq(queries), of the requests of task i that have been
\* issued and have neither returned nor failed
InFlight(t) == IF t.pc = "request" THEN {t.qi} ELSE {}

\* C22: within one indexer task the requests for the de-duplicated queries are
\* issued one after another in query-list order: at most one request of a task
\* is in flight, every earlier query has been answered (returned or failed)
\* when a request is in flight, and the request for a query starts in the step
\* in which the request for the previous query returns or fails (the first one
\* when the parameters are loaded); requests of different tasks overlap.
C22_RequestsInSeries ==
    /\ [](\A i \in Indexers :
            /\ Cardinality(InFlight(task[i])) <= 1
            /\ \A q \in InFlight(task[i]) :
                /\ q \in 1..Len(Uniq(queries))
                /\ Len(task[i].rawResults) = q - 1)
    /\ [][\A i \in Indexers : \A q \in InFlight(task'[i]) \ InFlight(task[i]) :
            \/ q = 1 /\ task[i].pc = "params"
            \/ /\ InFlight(task[i]) = {q - 1}
               /\ Len(task'[i].rawResults) = q - 1
               /\ SubSeq(task'[i].rawResults, 1, q - 2) = task[i].rawResults]_vars

\* the second request of one task and the first request of another task are
\* in flight at the same time
C22_Witness ==
    /\ phase = "waiting"
    /\ \E i \in Indexers : \E j \in Indexers :
        /\ i # j
        /\ InFlight(task[i]) = {2} /\ Len(task[i].rawResults) = 1
        /\ InFlight(task[j]) = {1}

(***************************************************************************)
(* The pure functions of the service, called on their own                  *)
(***************************************************************************)
\* the sequences over S of length at most n
SeqsUpTo(S, n) == UNION {[1..k -> S] : k \in 0..n}

\* tokens of normalized titles
TagTokens == {<<"s", "h", "o", "w">>, <<"r", "a", "r", "b", "g">>, <<"y", "t", "s">>}

\* tag rule lists of paramsService.getTags(): none, one rule, two rules in both
\* orders, two rules whose names differ by case only
TagRuleLists == {
    <<>>,
    << [name |-> <<"R", "A", "R", "B", "G">>, score |-> 5] >>,
    PreferredTags,
    << PreferredTags[2], PreferredTags[1] >>,
    << [name |-> <<"Y", "t", "s">>, score |-> 1], [name |-> <<"Y", "T", "S">>, score |-> 2] >> }

ParseTagCalls ==
    {[fn |-> "parseTag", normalizedTitle |-> t, preferredTags |-> r] :
        t \in SeqsUpTo(TagTokens, MaxTokens), r \in TagRuleLists}

\* tvShow.title and enTVShow.title
LocalTitles == {<<"S", "i", "l", "o">>, <<"W", "o", "w", "!">>, <<"W", "o", "w">>, <<"G", "o", "!", "G", "o", "!">>}

\* originalTitle: Latin, Cyrillic (Silo, and Sol with a soft sign), Katakana
OriginalTitles == {
    <<"S", "i", "l", "o">>,
    <<"W", "o", "w", "!">>,
    <<"U+0421", "U+0438", "U+043B", "U+043E">>,
    <<"U+0421", "U+043E", "U+043B", "U+044C">>,
    <<"U+30B5", "U+30A4", "U+30ED">> }

SearchSeasonCalls ==
    {[fn |-> "searchSeason", title |-> t, enTitle |-> e, originalTitle |-> o,
      seasonNumber |-> n] :
        t \in LocalTitles, e \in LocalTitles, o \in OriginalTitles, n \in 1..MaxSeason}

\* dayjs(movie.releaseDate).format('YYYY')
Years == {<<"1", "9", "9", "9">>, <<"2", "0", "2", "0">>}

SearchMovieCalls ==
    {[fn |-> "searchMovie", title |-> t, originalTitle |-> o, year |-> y] :
        t \in LocalTitles, o \in OriginalTitles, y \in Years}

QualityTokens == {<<"s", "h", "o", "w">>, <<"7", "2", "0", "p">>, <<"1", "0", "8", "0", "p">>, <<"1", "0", "8", "0">>}

\* quality rule lists of paramsService.getQualities(): the configured list, the
\* same rules in the other order, one rule, none
QualityRuleLists == {
    <<>>,
    << QualityParams[1] >>,
    QualityParams,
    << QualityParams[2], QualityParams[1] >> }

ParseQualityCalls ==
    {[fn |-> "parseQuality", normalizedTitle |-> t, qualityParams |-> r] :
        t \in SeqsUpTo(QualityTokens, MaxTokens), r \in QualityRuleLists}

TitleRepack == <<"S", "h", "o", "w", ".", "S", "0", "2", ".", "R", "E", "P", "A", "C", "K", ".", "1", "0", "8", "0", "p">>
TitleHundred == <<"T", "h", "e", "1", "0", "0", ".", "S", "0", "2", ".", "7", "2", "0", "p">>
TitlePlain == <<"S", "h", "o", "w", ".", "S", "0", "2", ".", "1", "0", "8", "0", "p">>

\* raw hits given to formatSearchResult and to the acceptance filter
FilterHits ==
    {[Guid |-> "g7", TrackerId |-> 1, Title |-> t, Size |-> z, Seeders |-> p[1],
      Peers |-> p[2], Link |-> "http://l/7", MagnetUri |-> ""] :
        t \in {TitleRepack, TitleHundred, TitlePlain, TitleEpisode, TitlePack},
        z \in {3, 9}, p \in {<<5, 1>>, <<1, 4>>}}

FilterCalls ==
    {[fn |-> "filter", result |-> h, opts |-> c.opts, preferredTags |-> c.tags] :
        h \in FilterHits, c \in SearchCalls}

\* arguments of toLatin: titles, and every letter of the cyrillic table alone
ToLatinCalls ==
    {[fn |-> "toLatin", toTranslate |-> t] :
        t \in LocalTitles \cup OriginalTitles \cup {<<cyrillic[k]>> : k \in 1..Len(cyrillic)}}

\* arguments of isLatin: titles, transliterated titles, and every entry of the
\* latin table alone
IsLatinCalls ==
    {[fn |-> "isLatin", title |-> t] :
        t \in LocalTitles \cup {toLatin(o) : o \in OriginalTitles}
                \cup {latin[k] : k \in 1..Len(latin)}}

FnCalls ==
    ParseTagCalls \cup SearchSeasonCalls \cup SearchMovieCalls \cup ParseQualityCalls
        \cup FilterCalls \cup ToLatinCalls \cup IsLatinCalls

\* no search is running: one pure function is called with one argument list
FnInit ==
    /\ call \in FnCalls
    /\ ret = NoCall
    /\ script = NoScript
    /\ opts = [withoutFilter |-> FALSE, isSeason |-> FALSE, maxSize |-> 8]
    /\ tagRules = <<>>
    /\ queries = <<>>
    /\ phase = "none"
    /\ task = [i \in Indexers |-> IdleTask]
    /\ timer = "idle"
    /\ joinValue = Pending
    /\ settledAtJoin = {}
    /\ outcome = Pending

Returns(fn, value) ==
    /\ call.fn = fn
    /\ ret = NoCall
    /\ ret' = [fn |-> fn, value |-> value]
    /\ UNCHANGED <<script, call, opts, queries, phase, task, timer, joinValue, settledAtJoin,
                   outcome, tagRules>>

CallParseTag ==
    /\ call.fn = "parseTag"
    /\ Returns("parseTag", parseTag(call.normalizedTitle, call.preferredTags))

CallSearchSeason ==
    /\ call.fn = "searchSeason"
    /\ Returns("searchSeason",
               searchSeason(call.title, call.enTitle, call.originalTitle, call.seasonNumber))

CallSearchMovie ==
    /\ call.fn = "searchMovie"
    /\ Returns("searchMovie", searchMovie(call.title, call.originalTitle, call.year))

CallParseQuality ==
    /\ call.fn = "parseQuality"
    /\ Returns("parseQuality", parseQuality(call.normalizedTitle, call.qualityParams))

\* formatSearchResult and the filter callback of searchIndexer on one raw hit
CallFilter ==
    /\ call.fn = "filter"
    /\ LET candidate == formatSearchResult(call.result, QualityParams, call.preferredTags)
       IN  Returns("filter", [candidate |-> candidate,
                              accepted |-> AcceptResult(candidate, call.opts)])

CallToLatin ==
    /\ call.fn = "toLatin"
    /\ Returns("toLatin", toLatin(call.toTranslate))

CallIsLatin ==
    /\ call.fn = "isLatin"
    /\ Returns("isLatin", isLatin(call.title))

FnNext ==
    \/ CallParseTag
    \/ CallSearchSeason
    \/ CallSearchMovie
    \/ CallParseQuality
    \/ CallFilter
    \/ CallToLatin
    \/ CallIsLatin

FnSpec == FnInit /\ [][FnNext]_vars

\* a rule matches a title when its lowercased name is one of the tokens
RuleMatches(rule, tokens) == \E k \in 1..Len(tokens) : tokens[k] = ToLowerCase(rule.name)

\* C12: parseTag gives {unknown, 1} when the tag-rule list is empty,
\* {unknown, 0} when the list is non-empty and no rule name (lowercased) equals
\* a token, and otherwise the name and score of the first rule in list order
\* whose lowercased name equals a token.
C12_TagOfFirstMatchingRule ==
    ret.fn = "parseTag" =>
        LET tokens == call.normalizedTitle
            rules == call.preferredTags
        IN  /\ rules = <<>> => ret.value = [label |-> Unknown, score |-> 1]
            /\ (rules # <<>> /\ \A t \in 1..Len(rules) : ~RuleMatches(rules[t], tokens)) =>
                ret.value = [label |-> Unknown, score |-> 0]
            /\ \A t \in 1..Len(rules) :
                ( /\ RuleMatches(rules[t], tokens)
                  /\ \A u \in 1..(t - 1) : ~RuleMatches(rules[u], tokens) ) =>
                    ret.value = [label |-> rules[t].name, score |-> rules[t].score]

\* two rules match, the token of the second rule comes first in the title, and
\* the first rule is the answer
C12_Witness ==
    /\ ret.fn = "parseTag"
    /\ Len(call.preferredTags) = 2
    /\ call.normalizedTitle = <<<<"y", "t", "s">>, <<"s", "h", "o", "w">>, <<"r", "a", "r", "b", "g">>>>
    /\ RuleMatches(call.preferredTags[1], call.normalizedTitle)
    /\ RuleMatches(call.preferredTags[2], call.normalizedTitle)
    /\ call.preferredTags[1].score > call.preferredTags[2].score
    /\ ret.value = [label |-> call.preferredTags[1].name, score |-> call.preferredTags[1].score]

(***************************************************************************)
(* C15 - C19: query generation, quality matching, the episode heuristic    *)
(***************************************************************************)
\* the de-duplicated title set of a season search: the localized and the
\* English title, and the transliterated original title if it is Latin
SeasonTitleSet ==
    {call.title, call.enTitle} \cup
        (IF isLatin(toLatin(call.originalTitle)) THEN {toLatin(call.originalTitle)} ELSE {})

\* n zero-padded to two digits
Padded(n) == IF n < 10 THEN <<"0", DigitChars[n + 1]>> ELSE Decimal(n)

NoRepeat(list) == \A j \in 1..Len(list) : \A k \in 1..Len(list) : j # k => list[j] # list[k]

\* C16: the query texts sent to an indexer for a movie search are
\* "{title} {year}", and "{originalTitleLatin} {year}" exactly when the
\* transliterated original title is Latin-representable and differs from the
\* title, and nothing else; no text is sent twice.
C16_MovieQueriesSent ==
    ret.fn = "searchMovie" =>
        LET sent == Dispatched(ret.value)
            originalTitleLatin == toLatin(call.originalTitle)
        IN  /\ Elements(sent) =
                    {call.title \o <<" ">> \o call.year} \cup
                    (IF isLatin(originalTitleLatin) /\ originalTitleLatin # call.title
                     THEN {originalTitleLatin \o <<" ">> \o call.year}
                     ELSE {})
            /\ NoRepeat(sent)

\* a Cyrillic original title whose transliteration is the title: searchMovie
\* gives the same text twice and it is sent once
C16_Witness ==
    /\ ret.fn = "searchMovie"
    /\ call.originalTitle # call.title
    /\ toLatin(call.originalTitle) = call.title
    /\ Len(ret.value) = 2
    /\ Dispatched(ret.value) = << call.title \o <<" ">> \o call.year >>

\* a quality rule matches a title when one of its keywords, lowercased, is one
\* of the tokens
QualityMatches(rule, tokens) ==
    \E m \in 1..Len(rule.match) : \E k \in 1..Len(tokens) :
        tokens[k] = ToLowerCase(rule.match[m])

\* C17: parseQuality returns the name and score of the first rule, in list
\* order, with a keyword equal (after lowercasing the keyword) to a token of
\* the normalized title, also when a later rule of a higher score matches;
\* when no rule matches it returns {unknown, 0}.
C17_QualityOfFirstMatchingRule ==
    ret.fn = "parseQuality" =>
        LET tokens == call.normalizedTitle
            rules == call.qualityParams
        IN  /\ (\A t \in 1..Len(rules) : ~QualityMatches(rules[t], tokens)) =>
                ret.value = [label |-> Unknown, score |-> 0]
            /\ \A t \in 1..Len(rules) :
                ( /\ QualityMatches(rules[t], tokens)
                  /\ \A u \in 1..(t - 1) : ~QualityMatches(rules[u], tokens) ) =>
                    ret.value = [label |-> rules[t].name, score |-> rules[t].score]

\* both rules match, the second one has the higher score and matches by an
\* upper-case keyword, and the first one is the answer
C17_Witness ==
    /\ ret.fn = "parseQuality"
    /\ Len(call.qualityParams) = 2
    /\ QualityMatches(call.qualityParams[1], call.normalizedTitle)
    /\ QualityMatches(call.qualityParams[2], call.normalizedTitle)
    /\ \E k \in 1..Len(call.normalizedTitle) : call.normalizedTitle[k] = <<"1", "0", "8", "0", "p">>
    /\ call.qualityParams[2].score > call.qualityParams[1].score
    /\ ret.value = [label |-> call.qualityParams[1].name, score |-> call.qualityParams[1].score]

\* C18: in a season-level automated search a candidate of acceptable size and
\* seeders > peers is rejected only if one of its normalized tokens is an
\* episode indicator (e<number>, episode, ep<number>); a candidate none of
\* whose tokens is an indicator is accepted.
C18_RejectedOnlyForIndicatorToken ==
    ( /\ ret.fn = "filter"
      /\ call.opts.isSeason /\ ~call.opts.withoutFilter
      /\ ret.value.candidate.size < call.opts.maxSize
      /\ ret.value.candidate.seeders >= 0
      /\ ret.value.candidate.seeders > ret.value.candidate.peers
      /\ ~ret.value.accepted ) =>
        \E k \in 1..Len(ret.value.candidate.normalizedTitleParts) :
            IsIndicatorToken(ret.value.candidate.normalizedTitleParts[k])

\* C19: no query generated for a season search contains the character '!',
\* whatever the show title is, also with more than one '!' in it; and two
\* titles that become equal once '!' is stripped produce each season query
\* only once in the dispatched set.
C19_NoBangInSeasonQueries ==
    ret.fn = "searchSeason" =>
        /\ \A q \in Elements(ret.value) : \A k \in 1..Len(q) : q[k] # "!"
        /\ NoRepeat(Dispatched(ret.value))

\* the second half of C19 on its own: the dispatched season queries are
\* pairwise different, also when two titles differ by a '!' only
SeasonQueriesSentOnce ==
    ret.fn = "searchSeason" => NoRepeat(Dispatched(ret.value))

SeasonQueriesSentOnceWitness ==
    /\ ret.fn = "searchSeason"
    /\ call.title # call.enTitle
    /\ ReplaceBang(call.title) = ReplaceBang(call.enTitle)
    /\ ~NoRepeat(ret.value)

(***************************************************************************)
(* C21: transliteration and the Latin test                                 *)
(***************************************************************************)
\* the characters the entries of the latin table are made of
LatinOutputChars == UNION {Elements(latin[k]) : k \in 1..Len(latin)}

\* C21: isLatin returns true for every string made only of characters that
\* the Cyrillic-to-Latin table produces as output (the transliterations of the
\* hard and the soft sign included), and toLatin returns its input unchanged
\* for every string that has no character of the cyrillic table.
C21_TableOutputIsLatin ==
    /\ ( /\ ret.fn = "isLatin"
         /\ \A k \in 1..Len(call.title) : call.title[k] \in LatinOutputChars ) =>
            ret.value = TRUE
    /\ ( /\ ret.fn = "toLatin"
         /\ \A k \in 1..Len(call.toTranslate) :
                call.toTranslate[k] \notin Elements(cyrillic) ) =>
            ret.value = call.toTranslate

\* the second half of C21 on its own: a string without a character of the
\* cyrillic table is returned unchanged
NonCyrillicUnchanged ==
    ( /\ ret.fn = "toLatin"
      /\ \A k \in 1..Len(call.toTranslate) :
            call.toTranslate[k] \notin Elements(cyrillic) ) =>
        ret.value = call.toTranslate

(***************************************************************************)
(* The download-finished script (src/unnamed/part_000) and the staging     *)
(* directory that addToFilebotQueue makes for the torrent                  *)
(***************************************************************************)
\* for i in {1..12}
Attempts == 12

\* sleep 5
SleepSeconds == 5

\* TR_TORRENT_NAME or $1: none, a name without and a name with a space
TorrentNames == {<<>>, <<"M", "o", "v", "i", "e", ".", "2", "0", "2", "0", ".", "1", "0", "8", "0", "p">>, <<"M", "y", " ", "M", "o", "v", "i", "e", " ", "2", "0", "2", "0">>}

\* ${STAGE}/${TORRENT_INPUT}: whether it exists, and whether it holds the job
\* directory torrentStage/random(), the folder in it, the copied download
Absent == [exists |-> FALSE, job |-> FALSE, folder |-> FALSE, download |-> FALSE]
Staged == [exists |-> TRUE, job |-> TRUE, folder |-> TRUE, download |-> FALSE]

\* a run of the script for a torrent name, with the staging directory as it is
\* when the run starts and the state of addToFilebotQueue: not called yet, or
\* waiting to delete the directory it has made
ScriptRun(name, stage, api) ==
    [pc |-> "start", name |-> name, attempt |-> 0, clock |-> 0, job_id |-> "",
     output |-> "", found |-> {}, testedAt |-> <<>>, fallback |-> FALSE,
     removed |-> FALSE, queue |-> <<>>, stage |-> stage, api |-> api]

StageInit ==
    /\ \E name \in TorrentNames :
        script \in {ScriptRun(name, Absent, "idle"), ScriptRun(name, Staged, "waiting")}
    /\ call = NoCall
    /\ ret = NoCall
    /\ opts = [withoutFilter |-> FALSE, isSeason |-> FALSE, maxSize |-> 8]
    /\ tagRules = <<>>
    /\ queries = <<>>
    /\ phase = "none"
    /\ task = [i \in Indexers |-> IdleTask]
    /\ timer = "idle"
    /\ joinValue = Pending
    /\ settledAtJoin = {}
    /\ outcome = Pending

\* a step of the script or of addToFilebotQueue changes nothing but script
ScriptStep(next) ==
    /\ script' = next
    /\ UNCHANGED <<call, ret, opts, queries, phase, task, timer, joinValue, settledAtJoin,
                   outcome, tagRules>>

\* if [ ! -z "$TORRENT_INPUT" ]: the loop starts, or the script ends
Start ==
    /\ script.pc = "start"
    /\ ScriptStep(IF script.name = <<>>
                  THEN [script EXCEPT !.pc = "done"]
                  ELSE [script EXCEPT !.pc = "ls", !.attempt = 1])

\* job_id=$(ls "${destination}"): the name of the job directory, nothing when
\* the staging directory is missing or empty
Ls ==
    /\ script.pc = "ls"
    /\ ScriptStep([script EXCEPT !.pc = "test",
                                 !.job_id = IF script.stage.job THEN "job" ELSE ""])

\* word splitting of the unquoted ${destination}
HasSpace(name) == \E k \in 1..Len(name) : name[k] = " "

\* if [ -d ${destination} ]: with a space in the name the test has too many
\* arguments and fails
Test ==
    /\ script.pc = "test"
    /\ LET isDirectory == script.stage.exists /\ ~HasSpace(script.name)
       IN  ScriptStep([script EXCEPT
                !.pc = IF isDirectory THEN "find" ELSE "sleep",
                !.testedAt = Append(script.testedAt, script.clock),
                !.found = IF isDirectory THEN script.found \cup {script.attempt}
                          ELSE script.found])

\* output=$(find "${destination}" -type d -empty)
Find ==
    /\ script.pc = "find"
    /\ ScriptStep([script EXCEPT
            !.pc = "cp",
            !.output = IF ~script.stage.exists \/ script.stage.download THEN ""
                       ELSE IF script.stage.folder THEN "folder"
                       ELSE IF script.stage.job THEN "job"
                       ELSE "destination"])

\* cp -r "${SOURCE}" "${output}": SOURCE is not assigned in the script; the
\* copy does not change which directories exist
Cp ==
    /\ script.pc = "cp"
    /\ ScriptStep([script EXCEPT !.pc = "mv"])

\* mv "${destination}/${job_id}" "${QUEUE}": with an empty job_id the source is
\* the staging directory itself; a missing source moves nothing
Mv ==
    /\ script.pc = "mv"
    /\ ScriptStep(
        IF script.job_id = ""
        THEN IF script.stage.exists
             THEN [script EXCEPT !.pc = "rm", !.stage = Absent,
                                 !.queue = Append(script.queue, "staging directory")]
             ELSE [script EXCEPT !.pc = "rm"]
        ELSE IF script.stage.job
             THEN [script EXCEPT !.pc = "rm", !.stage.job = FALSE, !.stage.folder = FALSE,
                                 !.queue = Append(script.queue, "job directory")]
             ELSE [script EXCEPT !.pc = "rm"])

\* rm -rf "${destination}"; exit 0
Rm ==
    /\ script.pc = "rm"
    /\ ScriptStep([script EXCEPT !.pc = "done", !.stage = Absent, !.removed = TRUE])

\* sleep 5, then the next attempt, or the statements after the loop
Sleep ==
    /\ script.pc = "sleep"
    /\ ScriptStep(
        IF script.attempt < Attempts
        THEN [script EXCEPT !.pc = "ls", !.attempt = script.attempt + 1,
                            !.clock = script.clock + SleepSeconds]
        ELSE [script EXCEPT !.pc = "fallbackCp", !.clock = script.clock + SleepSeconds])

\* cp -r "${DOWNLOADS}/${TORRENT_INPUT}" "${STAGE}": the download is copied to
\* ${STAGE}/${TORRENT_INPUT}, which is made if it is missing
FallbackCp ==
    /\ script.pc = "fallbackCp"
    /\ ScriptStep([script EXCEPT !.pc = "fallbackMv", !.fallback = TRUE,
                                 !.stage.exists = TRUE, !.stage.download = TRUE])

\* mv "${STAGE}/${TORRENT_INPUT}" "${QUEUE}"
FallbackMv ==
    /\ script.pc = "fallbackMv"
    /\ ScriptStep(
        IF script.stage.exists
        THEN [script EXCEPT !.pc = "done", !.stage = Absent,
                            !.queue = Append(script.queue, "staged download")]
        ELSE [script EXCEPT !.pc = "done"])

\* addToFilebotQueue: mkdir -p "${destination}" makes the staging directory,
\* the job directory and the folder one after the other; it fails when a
\* directory it has made is gone
ApiMkdir ==
    /\ script.pc # "none"
    /\ script.api \in {"idle", "made torrentStage", "made job"}
    /\ ScriptStep(
        IF script.api = "idle"
        THEN [script EXCEPT !.api = "made torrentStage", !.stage.exists = TRUE]
        ELSE IF script.api = "made torrentStage"
        THEN IF script.stage.exists
             THEN [script EXCEPT !.api = "made job", !.stage.job = TRUE]
             ELSE [script EXCEPT !.api = "failed"]
        ELSE IF script.stage.exists /\ script.stage.job
             THEN [script EXCEPT !.api = "waiting", !.stage.folder = TRUE]
             ELSE [script EXCEPT !.api = "failed"])

\* addToFilebotQueue: rm -rf "${torrentStage}" when the 15 minutes are over
ApiRm ==
    /\ script.pc # "none"
    /\ script.api = "waiting"
    /\ ScriptStep([script EXCEPT !.api = "done", !.stage = Absent])

StageNext ==
    \/ Start
    \/ Ls
    \/ Test
    \/ Find
    \/ Cp
    \/ Mv
    \/ Rm
    \/ Sleep
    \/ FallbackCp
    \/ FallbackMv
    \/ ApiMkdir
    \/ ApiRm

StageSpec == StageInit /\ [][StageNext]_vars

(***************************************************************************)
(* C23: the torrent is moved into the queue at most once                   *)
(***************************************************************************)
\* the torrent is moved into the queue at most once in a run
MovedAtMostOnce == script.pc # "none" => Len(script.queue) <= 1

\* the fallback copy is made only after all attempts, spaced by the sleep,
\* found no staging directory
FallbackAfterAllAttempts ==
    (script.pc # "none" /\ script.fallback) =>
        /\ script.found = {}
        /\ Len(script.testedAt) = Attempts
        /\ \A k \in 1..(Attempts - 1) :
            script.testedAt[k + 1] - script.testedAt[k] = SleepSeconds

\* an attempt that found the staging directory has moved the job directory to
\* the queue and removed the staging directory when the run has ended, and it
\* was the last attempt of the run
FoundAttemptStages ==
    (script.pc = "done" /\ script.found # {}) =>
        /\ script.queue = <<"job directory">>
        /\ script.removed
        /\ script.found = {script.attempt}
        /\ ~script.fallback

\* C23: in one run of the script for a non-empty torrent name the torrent is
\* moved into the queue directory at most once: an attempt that finds the
\* staging directory moves its job directory to the queue, removes the staging
\* directory and ends the run, and the fallback copy into the queue is made
\* only after all 12 attempts, 5 seconds apart, found no staging directory.
C23_StagedAtMostOnce ==
    (script.pc # "none" /\ script.name # <<>>) =>
        /\ MovedAtMostOnce
        /\ FoundAttemptStages
        /\ FallbackAfterAllAttempts
====
